---- MODULE Spec2Model ----
(***************************************************************************)
(* Model of the insecure-reverse-proxy crate: the forwarding engine        *)
(* (hyper_reverse_proxy.rs) and the tower service adapter (lib.rs).        *)
(*                                                                         *)
(* Text is modelled as a sequence of one-character strings; the element    *)
(* "0xFF" stands for the single byte 0xFF, which an http HeaderValue may   *)
(* hold but which is neither visible ASCII nor valid UTF-8.                *)
(* An Option<T> is <<>> (None) or <<v>> (Some(v)).                         *)
(***************************************************************************)
EXTENDS Integers, Sequences, FiniteSets, TLC

\* -------------------------------------------------------------------------
\* Text helpers (Rust str / http crate primitives the source calls)
\* -------------------------------------------------------------------------

None == <<>>

Some(v) == <<v>>

UpperSeq ==
    <<"A","B","C","D","E","F","G","H","I","J","K","L","M",
      "N","O","P","Q","R","S","T","U","V","W","X","Y","Z">>

LowerSeq ==
    <<"a","b","c","d","e","f","g","h","i","j","k","l","m",
      "n","o","p","q","r","s","t","u","v","w","x","y","z">>

Digits == {"0","1","2","3","4","5","6","7","8","9"}

\* bytes that HeaderValue::to_str rejects (not visible ASCII)
NonTextBytes == {"0xFF"}

\* characters accepted in a header name (http's HEADER_CHARS table)
TokenChars ==
    {LowerSeq[i] : i \in DOMAIN LowerSeq} \cup {UpperSeq[i] : i \in DOMAIN UpperSeq}
        \cup Digits \cup {"-", ".", "_", "&", "+", "*", "!", "#"}

\* str::trim strips Unicode white space
WhiteSpace == {" ", "\t"}

ToAsciiLower(c) ==
    IF \E i \in DOMAIN UpperSeq : UpperSeq[i] = c
    THEN LowerSeq[CHOOSE i \in DOMAIN UpperSeq : UpperSeq[i] = c]
    ELSE c

\* HEADER_CHARS[b]: the lower-cased byte, or 0 for a byte no name may hold
HeaderChar(c) == IF c \in TokenChars THEN ToAsciiLower(c) ELSE "0x00"

\* HeaderValue::to_str succeeds iff every byte is visible ASCII
ToStrOk(v) == \A i \in DOMAIN v : v[i] \notin NonTextBytes

\* std::str::from_utf8 succeeds iff the bytes are valid UTF-8
Utf8Ok(v) == \A i \in DOMAIN v : v[i] # "0xFF"

RECURSIVE Split(_, _)
\* str::split(sep): the pieces between separators; "" splits into [""]
Split(s, sep) ==
    IF \A i \in DOMAIN s : s[i] # sep
    THEN <<s>>
    ELSE LET i == CHOOSE k \in DOMAIN s :
                      s[k] = sep /\ \A j \in 1..(k - 1) : s[j] # sep
         IN  <<SubSeq(s, 1, i - 1)>> \o Split(SubSeq(s, i + 1, Len(s)), sep)

RECURSIVE TrimStart(_)
TrimStart(s) == IF s # <<>> /\ Head(s) \in WhiteSpace THEN TrimStart(Tail(s)) ELSE s

RECURSIVE TrimEnd(_)
TrimEnd(s) ==
    IF s # <<>> /\ s[Len(s)] \in WhiteSpace THEN TrimEnd(SubSeq(s, 1, Len(s) - 1)) ELSE s

\* str::trim
Trim(s) == TrimEnd(TrimStart(s))

\* `text == HeaderName`: http compares the text lower-cased through
\* HEADER_CHARS against the (already lower-case) name
EqHeaderName(text, name) ==
    /\ Len(text) = Len(name)
    /\ \A i \in DOMAIN name : name[i] = HeaderChar(text[i])

\* str::ends_with(char)
EndsWith(s, c) == s # <<>> /\ s[Len(s)] = c

\* chars().next_back(); as_str(): the text without its last character
DropLast(s) == SubSeq(s, 1, Len(s) - 1)

RECURSIVE Join(_, _)
\* the pieces with sep between them (inverse of Split)
Join(parts, sep) ==
    IF parts = <<>> THEN <<>>
    ELSE IF Len(parts) = 1 THEN parts[1]
    ELSE parts[1] \o <<sep>> \o Join(Tail(parts), sep)

\* -------------------------------------------------------------------------
\* Header names
\* -------------------------------------------------------------------------

TE_HEADER == <<"t","e">>

CONNECTION_HEADER == <<"c","o","n","n","e","c","t","i","o","n">>

UPGRADE_HEADER == <<"u","p","g","r","a","d","e">>

TRAILER_HEADER == <<"t","r","a","i","l","e","r">>

TRAILERS_HEADER == <<"t","r","a","i","l","e","r","s">>

HOP_HEADERS ==
    << CONNECTION_HEADER,
       TE_HEADER,
       TRAILER_HEADER,
       <<"k","e","e","p","-","a","l","i","v","e">>,
       <<"p","r","o","x","y","-","c","o","n","n","e","c","t","i","o","n">>,
       <<"p","r","o","x","y","-","a","u","t","h","e","n","t","i","c","a","t","e">>,
       <<"p","r","o","x","y","-","a","u","t","h","o","r","i","z","a","t","i","o","n">>,
       <<"t","r","a","n","s","f","e","r","-","e","n","c","o","d","i","n","g">>,
       <<"u","p","g","r","a","d","e">> >>

HopHeaderSet == {HOP_HEADERS[i] : i \in DOMAIN HOP_HEADERS}

X_FORWARDED_FOR == <<"x","-","f","o","r","w","a","r","d","e","d","-","f","o","r">>

HOST == <<"h","o","s","t">>

\* -------------------------------------------------------------------------
\* HeaderMap: a sequence of <<name, value>> entries, names lower-case
\* -------------------------------------------------------------------------

HasHeader(headers, name) == \E i \in DOMAIN headers : headers[i][1] = name

\* HeaderMap::get: the first value stored under the name
HeaderGet(headers, name) ==
    IF HasHeader(headers, name)
    THEN LET i == CHOOSE k \in DOMAIN headers :
                      headers[k][1] = name /\ \A j \in 1..(k - 1) : headers[j][1] # name
         IN  Some(headers[i][2])
    ELSE None

\* HeaderMap::remove(HeaderName): every value stored under the name goes
HeaderRemove(headers, name) == SelectSeq(headers, LAMBDA e : e[1] # name)

\* HeaderMap::remove(&str): the text is parsed as a header name first
\* (lower-cased); text that is no header name matches nothing
HeaderRemoveStr(headers, text) ==
    IF text # <<>> /\ \A i \in DOMAIN text : text[i] \in TokenChars
    THEN HeaderRemove(headers, [i \in DOMAIN text |-> ToAsciiLower(text[i])])
    ELSE headers

\* HeaderMap::insert: replaces every value stored under the name
HeaderInsert(headers, name, value) ==
    IF HasHeader(headers, name)
    THEN LET i == CHOOSE k \in DOMAIN headers :
                      headers[k][1] = name /\ \A j \in 1..(k - 1) : headers[j][1] # name
         IN  SubSeq(headers, 1, i - 1) \o << <<name, value>> >>
                 \o HeaderRemove(SubSeq(headers, i + 1, Len(headers)), name)
    ELSE Append(headers, <<name, value>>)

\* the names of a header collection
HeaderNames(headers) == {headers[i][1] : i \in DOMAIN headers}

\* -------------------------------------------------------------------------
\* Header Sanitizer and upgrade detection (hyper_reverse_proxy.rs)
\* -------------------------------------------------------------------------

RECURSIVE RemoveEach(_, _)
RemoveEach(headers, names) ==
    IF names = <<>> THEN headers
    ELSE RemoveEach(HeaderRemove(headers, Head(names)), Tail(names))

\* mutant: only the first value stored under a hop-by-hop name is removed
remove_hop_headers_first_value(headers) ==
    SelectSeq([i \in DOMAIN headers |->
                   IF headers[i][1] \in HopHeaderSet
                          /\ \A j \in 1..(i - 1) : headers[j][1] # headers[i][1]
                   THEN <<>> ELSE headers[i]],
              LAMBDA e : e # <<>>)

\* for header in HOP_HEADERS { headers.remove(header) }
remove_hop_headers(headers) == RemoveEach(headers, HOP_HEADERS)

RECURSIVE RemoveNamed(_, _)
\* for name in tokens { if !name.trim().is_empty() { headers.remove(name.trim()) } }
RemoveNamed(headers, tokens) ==
    IF tokens = <<>> THEN headers
    ELSE LET name == Trim(Head(tokens))
         IN  RemoveNamed(IF name # <<>> THEN HeaderRemoveStr(headers, name) ELSE headers,
                         Tail(tokens))

\* reads the first connection value as text (to_str().unwrap() panics on a
\* value that is not text) and removes every header one of its tokens names
remove_connection_headers(headers) ==
    LET conn == HeaderGet(headers, CONNECTION_HEADER)
    IN  IF conn = None THEN [panic |-> FALSE, headers |-> headers]
        ELSE IF ~ToStrOk(conn[1]) THEN [panic |-> TRUE, headers |-> headers]
        ELSE [panic |-> FALSE, headers |-> RemoveNamed(headers, Split(conn[1], ","))]

\* the sanitizer pass as run on outbound requests and non-101 responses:
\* remove_hop_headers, then remove_connection_headers on its result
SanitizerPass(headers) == remove_connection_headers(remove_hop_headers(headers))

\* Option<String> of the announced upgrade type; panics where the source
\* unwraps to_str() of a value that is not text
get_upgrade_type(headers) ==
    LET conn == HeaderGet(headers, CONNECTION_HEADER)
        upg  == HeaderGet(headers, UPGRADE_HEADER)
    IN  IF conn = None THEN [panic |-> FALSE, value |-> None]
        ELSE IF ~ToStrOk(conn[1]) THEN [panic |-> TRUE, value |-> None]
        ELSE IF \E i \in DOMAIN Split(conn[1], ",") :
                    EqHeaderName(Trim(Split(conn[1], ",")[i]), UPGRADE_HEADER)
             THEN IF upg = None THEN [panic |-> FALSE, value |-> None]
                  ELSE IF ~ToStrOk(upg[1]) THEN [panic |-> TRUE, value |-> None]
                  ELSE [panic |-> FALSE, value |-> Some(upg[1])]
             ELSE [panic |-> FALSE, value |-> None]

\* mutant: the response is handed back without the sanitizer pass
create_proxied_response_unsanitized(response) == [panic |-> FALSE, response |-> response]

\* remove_hop_headers and remove_connection_headers on the response headers
create_proxied_response(response) ==
    LET pass == SanitizerPass(response.headers)
    IN  [panic |-> pass.panic, response |-> [response EXCEPT !.headers = pass.headers]]

\* -------------------------------------------------------------------------
\* Forward URI Builder (hyper_reverse_proxy.rs, forward_uri)
\* -------------------------------------------------------------------------

\* el.split('=').collect(): (parts[0], if parts.len() > 1 { parts[1] } else { "" })
QueryItem(el) ==
    LET parts == Split(el, "=")
    IN  <<parts[1], IF Len(parts) > 1 THEN parts[2] ELSE <<>> >>

\* req.uri().query().unwrap_or("").split('&').map(...)
request_query_items(query) ==
    LET els == Split(IF query = None THEN <<>> ELSE query[1], "&")
    IN  [i \in DOMAIN els |-> QueryItem(els[i])]

\* forward_url_query.split('&').map(|el| el.split('=')[0])
forward_query_items(forward_url_query) ==
    LET els == Split(forward_url_query, "&")
    IN  [i \in DOMAIN els |-> Split(els[i], "=")[1]]

RECURSIVE PushItems(_, _, _)
\* for (key, value) in request_query_items: push '&' key '=' value unless
\* the key is one of forward_query_items
PushItems(url, items, keys) ==
    IF items = <<>> THEN url
    ELSE LET key   == Head(items)[1]
             value == Head(items)[2]
         IN  PushItems(IF \E i \in DOMAIN keys : keys[i] = key
                       THEN url
                       ELSE url \o <<"&">> \o key \o <<"=">> \o value,
                       Tail(items), keys)

\* the base url is the text before the first '?', less one trailing '/'
BaseUrl(forward_url) ==
    LET first == Split(forward_url, "?")[1]
    IN  IF EndsWith(first, "/") THEN DropLast(first) ELSE first

\* split_url.get(1).unwrap_or(""): the text between the first and second '?'
ForwardUrlQuery(forward_url) ==
    LET split_url == Split(forward_url, "?")
    IN  IF Len(split_url) > 1 THEN split_url[2] ELSE <<>>

\* the url text built for the backend from the configured target, the
\* inbound path and the inbound query (an Option)
forward_uri(forward_url, path, query) ==
    LET forward_url_query == ForwardUrlQuery(forward_url)
        url0   == BaseUrl(forward_url) \o path
        merged == PushItems(url0 \o <<"?">> \o forward_url_query,
                            request_query_items(query),
                            forward_query_items(forward_url_query))
    IN  IF forward_url_query # <<>> \/ (query # None /\ query[1] # <<>>)
        THEN IF forward_url_query = <<>>
             THEN url0 \o <<"?">> \o (IF query = None THEN <<>> ELSE query[1])
             ELSE IF EndsWith(merged, "&") THEN DropLast(merged) ELSE merged
        ELSE url0

\* the query of a url text: what follows its first '?', None without one
UrlQuery(url) ==
    IF \E i \in DOMAIN url : url[i] = "?"
    THEN LET i == CHOOSE k \in DOMAIN url :
                      url[k] = "?" /\ \A j \in 1..(k - 1) : url[j] # "?"
         IN  Some(SubSeq(url, i + 1, Len(url)))
    ELSE None

\* bytes hyper::Uri refuses anywhere in a URI
UriInvalidChars == {" ", "\t", "0xFF"}

\* str::parse::<hyper::Uri>() succeeds: the text is not empty and holds no
\* byte a URI may not hold
UriParseOk(url) == url # <<>> /\ \A i \in DOMAIN url : url[i] \notin UriInvalidChars

\* -------------------------------------------------------------------------
\* Proxied Request Builder (hyper_reverse_proxy.rs, create_proxied_request)
\* -------------------------------------------------------------------------

\* the te header lists the trailers token (first te value, trimmed tokens,
\* compared as `text == HeaderName`); panics on a value that is not text
contains_te_trailers_value(headers) ==
    LET te == HeaderGet(headers, TE_HEADER)
    IN  IF te = None THEN [panic |-> FALSE, value |-> FALSE]
        ELSE IF ~ToStrOk(te[1]) THEN [panic |-> TRUE, value |-> FALSE]
        ELSE [panic |-> FALSE,
              value |-> \E i \in DOMAIN Split(te[1], ",") :
                            EqHeaderName(Trim(Split(te[1], ",")[i]), TRAILERS_HEADER)]

\* the Entry match on x-forwarded-for: a vacant entry gets the client
\* address; an occupied one has the chain computed into a local String that
\* is dropped (from_utf8().unwrap() panics on bytes that are not UTF-8)
add_forwarded_for(headers, client_ip) ==
    LET xff == HeaderGet(headers, X_FORWARDED_FOR)
    IN  IF xff = None
        THEN [panic |-> FALSE, headers |-> Append(headers, <<X_FORWARDED_FOR, client_ip>>)]
        ELSE IF ~Utf8Ok(xff[1]) THEN [panic |-> TRUE, headers |-> headers]
        ELSE [panic |-> FALSE, headers |-> headers]

\* mutant: the te header is never put back after the sanitizer pass
reinsert_te_never(headers, trailers) == headers

\* if contains_te_trailers_value { insert(te, "trailers") }
reinsert_te(headers, trailers) ==
    IF trailers THEN HeaderInsert(headers, TE_HEADER, TRAILERS_HEADER) ELSE headers

\* if let Some(value) = upgrade_type { insert(upgrade, value); insert(connection, "UPGRADE") }
reinsert_upgrade(headers, upgrade_type) ==
    IF upgrade_type # None
    THEN HeaderInsert(HeaderInsert(headers, UPGRADE_HEADER, upgrade_type[1]),
                      CONNECTION_HEADER, <<"U","P","G","R","A","D","E">>)
    ELSE headers

\* kind "ok" with the outbound request, "InvalidUri", or "panic"
create_proxied_request(client_ip, forward_url, request, upgrade_type) ==
    LET te   == contains_te_trailers_value(request.headers)
        uri  == forward_uri(forward_url, request.path, request.query)
        pass == SanitizerPass(HeaderRemove(request.headers, HOST))
        h1   == reinsert_upgrade(reinsert_te(pass.headers, te.value), upgrade_type)
        xff  == add_forwarded_for(h1, client_ip)
        none == [headers |-> <<>>, uri |-> <<>>, body |-> request.body]
    IN  IF te.panic THEN [kind |-> "panic", request |-> none]
        ELSE IF ~UriParseOk(uri) THEN [kind |-> "InvalidUri", request |-> none]
        ELSE IF pass.panic \/ xff.panic THEN [kind |-> "panic", request |-> none]
        ELSE [kind |-> "ok",
              request |-> [headers |-> xff.headers, uri |-> uri, body |-> request.body]]

\* -------------------------------------------------------------------------
\* Engine results and the Service Adapter's mapping (lib.rs)
\* -------------------------------------------------------------------------

SWITCHING_PROTOCOLS == 101

BAD_GATEWAY == 502

INTERNAL_SERVER_ERROR == 500

\* "127.0.0.1".parse().unwrap(): the client address the adapter passes
CLIENT_IP == <<"1","2","7",".","0",".","0",".","1">>

NoResponse == [status |-> 0, headers |-> <<>>, body |-> ""]

NoResult ==
    [kind |-> "none", response |-> NoResponse, is_connect |-> FALSE,
     text |-> "", args |-> <<>>]

\* Ok(response)
OkResult(response) == [NoResult EXCEPT !.kind = "Ok", !.response = response]

\* Err(ProxyError::<variant>); is_connect is HyperClientError::is_connect()
ErrResult(variant, is_connect, text, args) ==
    [NoResult EXCEPT !.kind = variant, !.is_connect = is_connect,
                     !.text = text, !.args = args]

\* the unwinding of a panic out of the call: no Result is produced
PanicResult == [NoResult EXCEPT !.kind = "panic"]

ProxyErrorVariants ==
    {"InvalidUri", "HyperError", "HyperClientError", "ForwardHeaderError", "UpgradeError"}

\* #[error("...")] of ProxyError: the text to_string() starts with
ErrorPrefix(variant) ==
    CASE variant = "InvalidUri" -> "InvalidUri: "
      [] variant = "HyperError" -> "HyperError: "
      [] variant = "HyperClientError" -> "HyperClientError: "
      [] variant = "ForwardHeaderError" -> "ForwardHeaderError"
      [] variant = "UpgradeError" -> "UpgradeError: "

BAD_GATEWAY_BODY == "Bad gateway. Is your dev server running?"

\* mutant: the is_connect() guard is lost, every error maps to 500
service_response_all_500(res) ==
    IF res.kind = "Ok"
    THEN [status |-> res.response.status, headers |-> res.response.headers,
          body |-> [either |-> "Left", prefix |-> "", text |-> res.response.body,
                    args |-> <<>>]]
    ELSE [status |-> INTERNAL_SERVER_ERROR, headers |-> <<>>,
          body |-> [either |-> "Right", prefix |-> ErrorPrefix(res.kind),
                    text |-> res.text, args |-> res.args]]

\* the match on the engine's result in InsecureReverseProxyService::call
service_response(res) ==
    IF res.kind = "Ok"
    THEN [status |-> res.response.status, headers |-> res.response.headers,
          body |-> [either |-> "Left", prefix |-> "", text |-> res.response.body,
                    args |-> <<>>]]
    ELSE IF res.kind = "HyperClientError" /\ res.is_connect
    THEN [status |-> BAD_GATEWAY, headers |-> <<>>,
          body |-> [either |-> "Right", prefix |-> "", text |-> BAD_GATEWAY_BODY,
                    args |-> <<>>]]
    ELSE [status |-> INTERNAL_SERVER_ERROR, headers |-> <<>>,
          body |-> [either |-> "Right", prefix |-> ErrorPrefix(res.kind),
                    text |-> res.text, args |-> res.args]]

NoServiceResponse ==
    [status |-> 0, headers |-> <<>>,
     body |-> [either |-> "none", prefix |-> "", text |-> "", args |-> <<>>]]

\* -------------------------------------------------------------------------
\* Forwarding call (hyper_reverse_proxy.rs, call)
\* -------------------------------------------------------------------------

MISMATCH_TEXT == "backend tried to switch to protocol {:?} when {:?} was requested"

NO_HANDLE_TEXT == "request does not have an upgrade extension"

\* the call up to its first suspension (lines 351-361): next is "dispatch"
\* with the outbound request, "return" with an error result, or "panic"
call_begin(client_ip, forward_url, request) ==
    LET request_upgrade_type == get_upgrade_type(request.headers)
        built == create_proxied_request(client_ip, forward_url, request,
                                        request_upgrade_type.value)
        base  == [next |-> "panic", result |-> PanicResult,
                  request_upgrade_type |-> request_upgrade_type.value,
                  request_upgraded |-> request.on_upgrade,
                  proxied_request |-> built.request]
    IN  IF request_upgrade_type.panic \/ built.kind = "panic" THEN base
        ELSE IF built.kind = "InvalidUri"
        THEN [base EXCEPT !.next = "return",
                          !.result = ErrResult("InvalidUri", FALSE, "invalid uri", <<>>)]
        ELSE [base EXCEPT !.next = "dispatch", !.result = NoResult]

\* mutant: on 101 the announced upgrade types are not compared
call_on_response_types_unchecked(request_upgrade_type, request_upgraded, response) ==
    LET response_upgrade_type == get_upgrade_type(response.headers)
        proxied == create_proxied_response([status |-> response.status,
                                            headers |-> response.headers,
                                            body |-> response.body])
    IN  IF response.status = SWITCHING_PROTOCOLS
        THEN IF response_upgrade_type.panic
             THEN [next |-> "panic", result |-> PanicResult]
             ELSE IF request_upgraded
                  THEN IF response.on_upgrade
                       THEN [next |-> "await_upgrade", result |-> NoResult]
                       ELSE [next |-> "panic", result |-> PanicResult]
                  ELSE [next |-> "return",
                        result |-> ErrResult("UpgradeError", FALSE, NO_HANDLE_TEXT, <<>>)]
        ELSE IF proxied.panic
             THEN [next |-> "panic", result |-> PanicResult]
             ELSE [next |-> "return", result |-> OkResult(proxied.response)]

\* the call from the backend's response to its next suspension or its end
\* (lines 363-410): next is "return", "await_upgrade" or "panic"
call_on_response(request_upgrade_type, request_upgraded, response) ==
    LET response_upgrade_type == get_upgrade_type(response.headers)
        proxied == create_proxied_response([status |-> response.status,
                                            headers |-> response.headers,
                                            body |-> response.body])
    IN  IF response.status = SWITCHING_PROTOCOLS
        THEN IF response_upgrade_type.panic
             THEN [next |-> "panic", result |-> PanicResult]
             ELSE IF request_upgrade_type = response_upgrade_type.value
             THEN IF request_upgraded
                  THEN IF response.on_upgrade
                       THEN [next |-> "await_upgrade", result |-> NoResult]
                       ELSE [next |-> "panic", result |-> PanicResult]
                  ELSE [next |-> "return",
                        result |-> ErrResult("UpgradeError", FALSE, NO_HANDLE_TEXT, <<>>)]
             ELSE [next |-> "return",
                   result |-> ErrResult("UpgradeError", FALSE, MISMATCH_TEXT,
                                        <<response_upgrade_type.value,
                                          request_upgrade_type>>)]
        ELSE IF proxied.panic
             THEN [next |-> "panic", result |-> PanicResult]
             ELSE [next |-> "return", result |-> OkResult(proxied.response)]

\* mutant: the 101 response is sanitized like any other response
call_on_upgraded_sanitized(response, upgraded_ok) ==
    IF upgraded_ok
    THEN [spawn |-> TRUE,
          result |-> OkResult([status |-> response.status,
                               headers |-> SanitizerPass(response.headers).headers,
                               body |-> response.body])]
    ELSE [spawn |-> FALSE,
          result |-> ErrResult("HyperError", FALSE, "upgrade failed", <<>>)]

\* mutant: the backend's upgraded connection is obtained inside the tunnel
\* task, so its failure no longer reaches the call's result
call_on_upgraded_detached(response, upgraded_ok) ==
    [spawn |-> TRUE,
     result |-> OkResult([status |-> response.status, headers |-> response.headers,
                          body |-> response.body])]

\* the call once the backend's OnUpgrade future resolved (lines 372-392):
\* Ok spawns the tunnel task and returns the response as received, Err is
\* converted by `?` into ProxyError::HyperError
call_on_upgraded(response, upgraded_ok) ==
    IF upgraded_ok
    THEN [spawn |-> TRUE,
          result |-> OkResult([status |-> response.status, headers |-> response.headers,
                               body |-> response.body])]
    ELSE [spawn |-> FALSE,
          result |-> ErrResult("HyperError", FALSE, "upgrade failed", <<>>)]

\* -------------------------------------------------------------------------
\* Inputs
\* -------------------------------------------------------------------------

MaxReqHeaders == 2

MaxRespHeaders == 2

MaxQueryPairs == 2

\* every sequence of at most n entries of the menu
SeqsUpTo(menu, n) == UNION {[1..k -> menu] : k \in 0..n}

NonText == <<"0xFF">>

XFoo == <<"x","-","f","o","o">>

XBar == <<"x","-","b","a","r">>

WebSocket == <<"w","e","b","s","o","c","k","e","t">>

\* header lines an inbound request may carry
RequestHeaderMenu ==
    { <<CONNECTION_HEADER, <<"u","p","g","r","a","d","e">> >>,
      <<CONNECTION_HEADER, <<" ","U","p","g","r","a","d","e"," ",","," ","x","-","f","o","o">> >>,
      <<CONNECTION_HEADER, <<"x","-","f","o","o",","," ",",","X","-","B","a","r">> >>,
      <<CONNECTION_HEADER, NonText>>,
      <<UPGRADE_HEADER, WebSocket>>,
      <<TE_HEADER, <<"t","r","a","i","l","e","r","s",","," ","g","z","i","p">> >>,
      <<TE_HEADER, <<"g","z","i","p",","," ","T","r","a","i","l","e","r","s">> >>,
      <<TE_HEADER, <<"g","z","i","p">> >>,
      <<TE_HEADER, NonText>>,
      <<X_FORWARDED_FOR, <<"9",".","9",".","9",".","9">> >>,
      <<X_FORWARDED_FOR, NonText>>,
      <<XFoo, <<"1">> >>,
      <<XBar, <<"2">> >>,
      <<HOST, <<"a">> >> }

\* header lines a backend response may carry
ResponseHeaderMenu ==
    { <<CONNECTION_HEADER, <<"u","p","g","r","a","d","e">> >>,
      <<CONNECTION_HEADER, <<"x","-","f","o","o">> >>,
      <<CONNECTION_HEADER, NonText>>,
      <<UPGRADE_HEADER, WebSocket>>,
      <<UPGRADE_HEADER, <<"h","2","c">> >>,
      <<XFoo, <<"1">> >> }

\* the inbound request's path and query (http::Uri::path, query)
InboundUris ==
    { [path |-> <<"/","b">>, query |-> None],
      [path |-> <<"/">>, query |-> Some(<<"k","=","2","&","j","=","3">>)] }

\* inbound requests: on_upgrade says the connection put an OnUpgrade
\* extension on the request
Requests ==
    { [headers |-> h, path |-> u.path, query |-> u.query, body |-> "request body",
       on_upgrade |-> up] :
          h \in SeqsUpTo(RequestHeaderMenu, MaxReqHeaders), u \in InboundUris,
          up \in BOOLEAN }

BackendStatuses == {200, 404, SWITCHING_PROTOCOLS}

\* backend responses: on_upgrade says the client put an OnUpgrade extension
\* on the response
BackendResponses ==
    { [status |-> st, headers |-> h, body |-> "response body", on_upgrade |-> up] :
          st \in BackendStatuses, h \in SeqsUpTo(ResponseHeaderMenu, MaxRespHeaders),
          up \in BOOLEAN }

\* configured targets (InsecureReverseProxyService::target)
Targets ==
    { <<"h","t","t","p",":","/","/","x">>,
      <<"h","t","t","p",":","/","/","x","/","a","/","?","k","=","1">>,
      <<"h","t","t","p",":","/","/","x"," ","y">> }

\* configured targets for the Forward URI Builder on its own
UriTargets ==
    { <<"h","t","t","p",":","/","/","x">>,
      <<"h","t","t","p",":","/","/","x","/","a","/">>,
      <<"h","t","t","p",":","/","/","x","?","k","=","1">>,
      <<"h","t","t","p",":","/","/","x","/","?","k","=","1","&","m">>,
      <<"h","t","t","p",":","/","/","x","/","a","/","?","j">> }

UriPaths == { <<"/">>, <<"/","b">> }

\* the '&'-separated pieces inbound queries are made of
QuerySegments ==
    { <<"k","=","2">>, <<"j","=","3">>, <<"j">>, <<"j","=","a","=","b">>,
      <<"m","=","4">>, <<>> }

\* inbound queries: absent, or up to MaxQueryPairs pieces joined by '&'
UriQueries ==
    {None} \cup {Some(Join(segs, "&")) : segs \in SeqsUpTo(QuerySegments, MaxQueryPairs)}

CallIds == {1}

\* -------------------------------------------------------------------------
\* State
\* -------------------------------------------------------------------------

VARIABLES
    target,   \* the service's configured target url
    calls,    \* per call: position, requests, response, result, tunnel task
    fu,       \* the Forward URI Builder run on its own: inputs and output
    san       \* the Header Sanitizer run on its own: the collection and its passes

vars == <<target, calls, fu, san>>

NoInbound ==
    [headers |-> <<>>, path |-> <<>>, query |-> None, body |-> "", on_upgrade |-> FALSE]

NoOutbound == [headers |-> <<>>, uri |-> <<>>, body |-> ""]

NoBackend == [status |-> 0, headers |-> <<>>, body |-> "", on_upgrade |-> FALSE]

IdleCall ==
    [pc |-> "idle",
     inbound |-> NoInbound,
     outbound |-> NoOutbound,
     request_upgrade_type |-> None,
     request_upgraded |-> FALSE,
     backend |-> NoBackend,
     upgrade_failed |-> FALSE,
     result |-> NoResult,
     response |-> NoServiceResponse,
     tunnel |-> "none",
     log |-> <<>>]

FuIdle == [pc |-> "idle", path |-> <<>>, query |-> None, url |-> <<>>]

SanIdle == [pc |-> "idle", original |-> <<>>, headers |-> <<>>, once |-> <<>>, panic |-> FALSE]

Init ==
    /\ target \in Targets
    /\ calls = [c \in CallIds |-> IdleCall]
    /\ fu = FuIdle
    /\ san = SanIdle

\* the call ends: the adapter maps the engine's result to the response
Deliver(call, result) ==
    [call EXCEPT !.pc = "delivered", !.result = result,
                 !.response = service_response(result),
                 !.log = Append(call.log, "delivered"),
                 !.inbound = NoInbound, !.outbound = NoOutbound]

\* the call's task unwinds: nothing is delivered
Abort(call) ==
    [call EXCEPT !.pc = "panicked", !.result = PanicResult,
                 !.inbound = NoInbound, !.outbound = NoOutbound]

\* Service::call and the future's first poll, up to client.request(..).await,
\* for a request out of the given set; a call that ends here keeps the
\* request it was given on record
ServiceCallOf(c, requests) ==
    /\ calls[c].pc = "idle"
    /\ \E request \in requests :
         LET b    == call_begin(CLIENT_IP, target, request)
             call == [calls[c] EXCEPT !.request_upgrade_type = b.request_upgrade_type,
                                      !.request_upgraded = b.request_upgraded]
         IN  calls' = [calls EXCEPT ![c] =
                 IF b.next = "panic" THEN [Abort(call) EXCEPT !.inbound = request]
                 ELSE IF b.next = "return"
                 THEN [Deliver(call, b.result) EXCEPT !.inbound = request]
                 ELSE [call EXCEPT !.pc = "dispatching", !.inbound = request,
                                   !.outbound = b.proxied_request,
                                   !.log = Append(@, "dispatched")]]
    /\ UNCHANGED <<target, fu, san>>

ServiceCall(c) == ServiceCallOf(c, Requests)

\* mutant: the call answers as soon as the request is written, without
\* awaiting client.request(..)
ClientSends_answers_early(c) ==
    /\ calls[c].pc = "dispatching"
    /\ calls' = [calls EXCEPT ![c] =
           Deliver(calls[c], OkResult([status |-> 200, headers |-> <<>>, body |-> ""]))]
    /\ UNCHANGED <<target, fu, san>>

\* the client writes the outbound request to the backend connection: the
\* request, moved into client.request(..), is consumed
ClientSends(c) ==
    /\ calls[c].pc = "dispatching"
    /\ calls' = [calls EXCEPT ![c] =
           [calls[c] EXCEPT !.pc = "awaiting_response", !.inbound = NoInbound,
                            !.outbound = NoOutbound]]
    /\ UNCHANGED <<target, fu, san>>

\* client.request(..) resolves to a response and the call runs on
DispatchCompletesOf(c, responses) ==
    /\ calls[c].pc = "awaiting_response"
    /\ \E response \in responses :
         LET r    == call_on_response(calls[c].request_upgrade_type,
                                      calls[c].request_upgraded, response)
             call == [calls[c] EXCEPT !.backend = response,
                                      !.log = Append(@, "dispatch_completed")]
         IN  calls' = [calls EXCEPT ![c] =
                 IF r.next = "panic" THEN Abort(call)
                 ELSE IF r.next = "return" THEN Deliver(call, r.result)
                 ELSE [call EXCEPT !.pc = "upgrading", !.inbound = NoInbound,
                                   !.outbound = NoOutbound]]
    /\ UNCHANGED <<target, fu, san>>

DispatchCompletes(c) == DispatchCompletesOf(c, BackendResponses)

\* client.request(..) resolves to an error: `?` returns HyperClientError
DispatchFails(c) ==
    /\ calls[c].pc \in {"dispatching", "awaiting_response"}
    /\ \E is_connect \in BOOLEAN :
         calls' = [calls EXCEPT ![c] =
             Deliver([calls[c] EXCEPT !.log = Append(@, "dispatch_completed")],
                     ErrResult("HyperClientError", is_connect, "client error", <<>>))]
    /\ UNCHANGED <<target, fu, san>>

\* the backend's OnUpgrade future resolves, with the connection or an error
BackendUpgradeResolves(c) ==
    /\ calls[c].pc = "upgrading"
    /\ \E upgraded_ok \in BOOLEAN :
         LET u == call_on_upgraded(calls[c].backend, upgraded_ok)
         IN  calls' = [calls EXCEPT ![c] =
                 [Deliver(calls[c], u.result) EXCEPT
                      !.tunnel = IF u.spawn THEN "spawned" ELSE "none",
                      !.upgrade_failed = ~upgraded_ok]]
    /\ UNCHANGED <<target, fu, san>>

\* the tunnel task: request_upgraded.await.expect(..)
TunnelClientUpgrade(c) ==
    /\ calls[c].tunnel = "spawned"
    /\ \E ok \in BOOLEAN :
         calls' = [calls EXCEPT ![c].tunnel = IF ok THEN "copying" ELSE "panicked"]
    /\ UNCHANGED <<target, fu, san>>

\* the tunnel task: copy_bidirectional(..).await.expect(..)
TunnelCopyEnds(c) ==
    /\ calls[c].tunnel = "copying"
    /\ \E ok \in BOOLEAN :
         calls' = [calls EXCEPT ![c].tunnel = IF ok THEN "closed" ELSE "panicked"]
    /\ UNCHANGED <<target, fu, san>>

Next ==
    \E c \in CallIds :
        \/ ServiceCall(c)
        \/ ClientSends(c)
        \/ DispatchCompletes(c)
        \/ DispatchFails(c)
        \/ BackendUpgradeResolves(c)
        \/ TunnelClientUpgrade(c)
        \/ TunnelCopyEnds(c)

Spec == Init /\ [][Next]_vars

\* -------------------------------------------------------------------------
\* Concurrent calls: one future per call, no state shared between them
\* -------------------------------------------------------------------------

ConcCallIds == {1, 2}

ConcTargets == { <<"h","t","t","p",":","/","/","x">>,
                 <<"h","t","t","p",":","/","/","x"," ","y">> }

\* a plain request, and an upgrade request on a connection with a handle
ConcRequests ==
    { [headers |-> <<>>, path |-> <<"/","b">>, query |-> None,
       body |-> "request body", on_upgrade |-> FALSE],
      [headers |-> << <<CONNECTION_HEADER, UPGRADE_HEADER>>, <<UPGRADE_HEADER, WebSocket>> >>,
       path |-> <<"/","b">>, query |-> None,
       body |-> "request body", on_upgrade |-> TRUE] }

\* a plain response, and a 101 response agreeing to the upgrade
ConcResponses ==
    { [status |-> 200, headers |-> << <<XFoo, <<"1">> >> >>,
       body |-> "response body", on_upgrade |-> FALSE],
      [status |-> SWITCHING_PROTOCOLS,
       headers |-> << <<CONNECTION_HEADER, UPGRADE_HEADER>>, <<UPGRADE_HEADER, WebSocket>> >>,
       body |-> "response body", on_upgrade |-> TRUE] }

InitConc ==
    /\ target \in ConcTargets
    /\ calls = [c \in ConcCallIds |-> IdleCall]
    /\ fu = FuIdle
    /\ san = SanIdle

NextConc ==
    \E c \in ConcCallIds :
        \/ ServiceCallOf(c, ConcRequests)
        \/ ClientSends(c)
        \/ DispatchCompletesOf(c, ConcResponses)
        \/ DispatchFails(c)
        \/ BackendUpgradeResolves(c)
        \/ TunnelClientUpgrade(c)
        \/ TunnelCopyEnds(c)

SpecConc == InitConc /\ [][NextConc]_vars

\* -------------------------------------------------------------------------
\* The Forward URI Builder on its own inputs
\* -------------------------------------------------------------------------

InitUri ==
    /\ target \in UriTargets
    /\ calls = [c \in CallIds |-> IdleCall]
    /\ \E path \in UriPaths, query \in UriQueries :
           fu = [pc |-> "input", path |-> path, query |-> query, url |-> <<>>]
    /\ san = SanIdle

BuildForwardUri ==
    /\ fu.pc = "input"
    /\ fu' = [fu EXCEPT !.pc = "built", !.url = forward_uri(target, fu.path, fu.query)]
    /\ UNCHANGED <<target, calls, san>>

NextUri == BuildForwardUri

SpecUri == InitUri /\ [][NextUri]_vars

\* -------------------------------------------------------------------------
\* The Header Sanitizer on its own inputs
\* -------------------------------------------------------------------------

\* header collections handed to the sanitizer: request and response lines,
\* duplicates and any connection value allowed
SanitizerInputs ==
    SeqsUpTo(RequestHeaderMenu \cup ResponseHeaderMenu
                 \cup { <<HOP_HEADERS[4], <<"5">> >>,
                        <<HOP_HEADERS[8], <<"c","h","u","n","k","e","d">> >> },
             MaxReqHeaders)

InitSan ==
    /\ target \in {<<"h","t","t","p",":","/","/","x">>}
    /\ calls = [c \in CallIds |-> IdleCall]
    /\ fu = FuIdle
    /\ \E h \in SanitizerInputs :
           san = [pc |-> "input", original |-> h, headers |-> h, once |-> <<>>,
                  panic |-> FALSE]

\* remove_hop_headers(headers); remove_connection_headers(headers), in place
Sanitize ==
    /\ san.pc \in {"input", "once"}
    /\ ~san.panic
    /\ LET pass == SanitizerPass(san.headers)
       IN  san' = [san EXCEPT !.pc = IF san.pc = "input" THEN "once" ELSE "twice",
                              !.headers = pass.headers,
                              !.once = IF san.pc = "input" THEN pass.headers ELSE san.once,
                              !.panic = pass.panic]
    /\ UNCHANGED <<target, calls, fu>>

NextSan == Sanitize

SpecSan == InitSan /\ [][NextSan]_vars

\* -------------------------------------------------------------------------
\* Claims C1, C2: the outbound request's headers
\* -------------------------------------------------------------------------

\* the trimmed, non-empty tokens of a comma-separated header value
ListedTokens(value) ==
    {Trim(Split(value, ",")[i]) : i \in DOMAIN Split(value, ",")} \ {<<>>}

\* C1: once create_proxied_request has produced the outbound request, it
\* carries x-forwarded-for: the client address alone when the inbound
\* request had none, and the inbound value followed by ", " and the client
\* address when it had one.
C1_ForwardedForAppended ==
    \A c \in CallIds :
        calls[c].pc = "dispatching" =>
            LET before == HeaderGet(calls[c].inbound.headers, X_FORWARDED_FOR)
                after  == HeaderGet(calls[c].outbound.headers, X_FORWARDED_FOR)
            IN  /\ after # None
                /\ before = None => after[1] = CLIENT_IP
                /\ before # None => after[1] = before[1] \o <<",", " ">> \o CLIENT_IP

\* C2: after the sanitizer pass (remove_hop_headers, then
\* remove_connection_headers) over a collection with a connection header,
\* no header is left whose name is a token of that connection value; on the
\* outbound request's headers and on a non-101 response's headers.
C2_ConnectionTokensRemoved ==
    \A c \in CallIds :
        /\ (calls[c].pc = "dispatching"
               /\ HeaderGet(calls[c].inbound.headers, CONNECTION_HEADER) # None) =>
               LET original == HeaderRemove(calls[c].inbound.headers, HOST)
                   tokens == ListedTokens(HeaderGet(original, CONNECTION_HEADER)[1])
               IN  \A name \in HeaderNames(SanitizerPass(original).headers) :
                       \A t \in tokens : ~EqHeaderName(t, name)
        /\ (calls[c].pc = "delivered" /\ calls[c].result.kind = "Ok"
               /\ calls[c].backend.status # SWITCHING_PROTOCOLS
               /\ HeaderGet(calls[c].backend.headers, CONNECTION_HEADER) # None) =>
               LET tokens ==
                       ListedTokens(HeaderGet(calls[c].backend.headers, CONNECTION_HEADER)[1])
               IN  \A name \in HeaderNames(calls[c].response.headers) :
                       \A t \in tokens : ~EqHeaderName(t, name)

\* -------------------------------------------------------------------------
\* Claims C3, C4, C10: the upgrade path
\* -------------------------------------------------------------------------

\* the call has ended: a response was delivered or its task unwound
Ended(c) == calls[c].pc \in {"delivered", "panicked"}

\* the backend answered 101 and get_upgrade_type reads its headers
\* without panicking
Answered101(c) ==
    /\ calls[c].backend.status = SWITCHING_PROTOCOLS
    /\ ~get_upgrade_type(calls[c].backend.headers).panic

\* the upgrade type the backend's response announces
ResponseUpgradeType(c) == get_upgrade_type(calls[c].backend.headers).value

\* the request announced a type, the 101 response announces the same one,
\* and the inbound connection supplied an upgrade handle
UpgradeAgreed(c) ==
    /\ Answered101(c)
    /\ calls[c].request_upgrade_type # None
    /\ ResponseUpgradeType(c) = calls[c].request_upgrade_type
    /\ calls[c].request_upgraded

\* the 101 response came back as the backend sent it and a tunnel task runs
Returned101(c) ==
    /\ calls[c].pc = "delivered"
    /\ calls[c].result.kind = "Ok"
    /\ calls[c].response.status = SWITCHING_PROTOCOLS
    /\ calls[c].response.headers = calls[c].backend.headers
    /\ calls[c].tunnel # "none"

\* C3 as stated, read for the calls that return: whenever the upgrade is
\* agreed, what the call returns is the backend's 101 response unmodified,
\* with a tunnel started.
C3_Original ==
    \A c \in CallIds :
        (calls[c].pc = "delivered" /\ UpgradeAgreed(c)) => Returned101(c)

\* C3 (amended): when the upgrade is agreed and the 101 response carries the
\* backend's OnUpgrade future, the call returns the backend's 101 response
\* with status and every header as sent and a tunnel task is started if that
\* future resolves to the upgraded connection; if it resolves to an error
\* the call fails with HyperError and no tunnel task is started.
C3_UpgradeReturned ==
    \A c \in CallIds :
        (Ended(c) /\ UpgradeAgreed(c) /\ calls[c].backend.on_upgrade) =>
            IF calls[c].upgrade_failed
            THEN /\ calls[c].pc = "delivered"
                 /\ calls[c].result.kind = "HyperError"
                 /\ calls[c].tunnel = "none"
            ELSE Returned101(c)

C3_Witness ==
    \E c \in CallIds :
        /\ UpgradeAgreed(c)
        /\ Returned101(c)
        /\ HasHeader(calls[c].response.headers, UPGRADE_HEADER)
        /\ HasHeader(calls[c].response.headers, CONNECTION_HEADER)

C10_Original ==
    \A c \in CallIds :
        (UpgradeAgreed(c) /\ calls[c].backend.on_upgrade) =>
            /\ calls[c].result.kind = "Ok"
            /\ calls[c].response.status = SWITCHING_PROTOCOLS

\* C10 (amended): the call waits for the backend's upgraded connection
\* before it returns (nothing is returned and no tunnel exists while it
\* waits; a failure there makes the call fail with HyperError, without a
\* tunnel); once the tunnel task is spawned the call's result is the 101
\* response, and neither a failure to obtain the client's upgraded
\* connection nor a copy error in the task changes it.
C10_TunnelDetached ==
    \A c \in CallIds :
        /\ calls[c].pc = "upgrading" =>
               (calls[c].result.kind = "none" /\ calls[c].tunnel = "none")
        /\ calls[c].upgrade_failed =>
               (calls[c].result.kind = "HyperError" /\ calls[c].tunnel = "none")
        /\ calls[c].tunnel # "none" =>
               /\ calls[c].pc = "delivered"
               /\ calls[c].result.kind = "Ok"
               /\ calls[c].response.status = SWITCHING_PROTOCOLS

C10_Witness ==
    \E c \in CallIds :
        /\ calls[c].tunnel = "panicked"
        /\ calls[c].result.kind = "Ok"
        /\ calls[c].response.status = SWITCHING_PROTOCOLS

\* -------------------------------------------------------------------------
\* Claims C5, C6: the Service Adapter
\* -------------------------------------------------------------------------

\* C5: a client dispatch error flagged as a connection failure yields 502
\* with the fixed advisory body; every other ProxyError yields 500 with the
\* error's description as body; a successful result keeps its status.
C5_StatusMapping ==
    \A c \in CallIds :
        calls[c].pc = "delivered" =>
            LET res  == calls[c].result
                resp == calls[c].response
            IN  /\ res.kind \in ProxyErrorVariants \cup {"Ok"}
                /\ (res.kind = "HyperClientError" /\ res.is_connect) =>
                       /\ resp.status = 502
                       /\ resp.body.either = "Right"
                       /\ resp.body.text = "Bad gateway. Is your dev server running?"
                /\ (res.kind \in ProxyErrorVariants
                       /\ ~(res.kind = "HyperClientError" /\ res.is_connect)) =>
                       /\ resp.status = 500
                       /\ resp.body.either = "Right"
                       /\ resp.body.prefix = ErrorPrefix(res.kind)
                       /\ resp.body.text = res.text
                       /\ resp.body.args = res.args
                /\ res.kind = "Ok" =>
                       /\ resp.status = res.response.status
                       /\ resp.status = calls[c].backend.status
                       /\ resp.body.either = "Left"

C5_Witness ==
    \E c \in CallIds :
        /\ calls[c].pc = "delivered"
        /\ calls[c].result.kind = "HyperClientError"
        /\ calls[c].result.is_connect
        /\ calls[c].response.status = 502

\* C6: whatever the inbound request and the backend's behaviour, a call to
\* the Service Adapter ends with an HTTP response; no call's task unwinds
\* without one.
C6_AlwaysAResponse == \A c \in CallIds : calls[c].pc # "panicked"

\* -------------------------------------------------------------------------
\* Claim C9: the outbound te header
\* -------------------------------------------------------------------------

\* every value the outbound request carries under te
OutboundTeValues(c) ==
    {calls[c].outbound.headers[i][2] :
        i \in {k \in DOMAIN calls[c].outbound.headers :
                   calls[c].outbound.headers[k][1] = TE_HEADER}}

\* the first inbound te value lists a token that is `trailers` letter for
\* letter
ListsTrailersExactly(c) ==
    LET te == HeaderGet(calls[c].inbound.headers, TE_HEADER)
    IN  te # None /\ TRAILERS_HEADER \in ListedTokens(te[1])

\* the first inbound te value lists a token that is `trailers` in any
\* letter case
ListsTrailersAnyCase(c) ==
    LET te == HeaderGet(calls[c].inbound.headers, TE_HEADER)
    IN  te # None /\ \E t \in ListedTokens(te[1]) :
                         Len(t) = Len(TRAILERS_HEADER)
                             /\ \A i \in DOMAIN t : ToAsciiLower(t[i]) = TRAILERS_HEADER[i]

\* C9 as stated: the outbound request carries te, with the value
\* `trailers` and nothing else, exactly when the inbound te header lists
\* the token `trailers` under case-sensitive comparison.
C9_Original ==
    \A c \in CallIds :
        calls[c].pc = "dispatching" =>
            IF ListsTrailersExactly(c)
            THEN OutboundTeValues(c) = {TRAILERS_HEADER}
            ELSE OutboundTeValues(c) = {}

\* C9 (amended): the outbound request carries te, with the value `trailers`
\* and nothing else, exactly when the first inbound te value lists, among
\* its comma-separated trimmed tokens, `trailers` in any letter case.
C9_TeTrailers ==
    \A c \in CallIds :
        calls[c].pc = "dispatching" =>
            IF ListsTrailersAnyCase(c)
            THEN OutboundTeValues(c) = {TRAILERS_HEADER}
            ELSE OutboundTeValues(c) = {}

C9_Witness ==
    \E c \in CallIds :
        /\ calls[c].pc = "dispatching"
        /\ ListsTrailersAnyCase(c)
        /\ ~ListsTrailersExactly(c)
        /\ OutboundTeValues(c) = {TRAILERS_HEADER}

\* -------------------------------------------------------------------------
\* Claims C7, C8: the forward URI's query
\* -------------------------------------------------------------------------

\* a key=value piece cut at its first '=': the key, and the complete value
\* (empty when the piece has no '=')
PairOf(el) ==
    IF \E i \in DOMAIN el : el[i] = "="
    THEN LET i == CHOOSE k \in DOMAIN el :
                      el[k] = "=" /\ \A j \in 1..(k - 1) : el[j] # "="
         IN  <<SubSeq(el, 1, i - 1), SubSeq(el, i + 1, Len(el))>>
    ELSE <<el, <<>> >>

\* the key=value pairs of a query, in order; an absent query has none
PairsOf(query) ==
    IF query = None THEN <<>>
    ELSE LET els == Split(query[1], "&") IN [i \in DOMAIN els |-> PairOf(els[i])]

\* the configured target's query: what follows its first '?'
BaseQuery == IF UrlQuery(target) = None THEN <<>> ELSE UrlQuery(target)[1]

BaseKeys == {PairsOf(Some(BaseQuery))[i][1] : i \in DOMAIN PairsOf(Some(BaseQuery))}

\* the forward URI's query and what it holds after the base query
ForwardQuery == IF UrlQuery(fu.url) = None THEN <<>> ELSE UrlQuery(fu.url)[1]

AppendedPairs ==
    LET rest == SubSeq(ForwardQuery, Len(BaseQuery) + 1, Len(ForwardQuery))
    IN  IF rest = <<>> THEN <<>> ELSE PairsOf(Some(Tail(rest)))

\* the inbound pairs whose key is no key of the base query, in order
InboundOnlyPairs == SelectSeq(PairsOf(fu.query), LAMBDA pr : pr[1] \notin BaseKeys)

RECURSIVE IsSubsequence(_, _)
\* a's elements occur in b in the same order
IsSubsequence(a, b) ==
    IF a = <<>> THEN TRUE
    ELSE IF b = <<>> THEN FALSE
    ELSE IF Head(a) = Head(b) THEN IsSubsequence(Tail(a), Tail(b))
    ELSE IsSubsequence(a, Tail(b))

\* C7: with a non-empty base query, the forward URI's query starts with the
\* base query unchanged, then holds no pair whose key is a key of the base
\* query, and holds every inbound pair whose key is not, in inbound order.
C7_ConfiguredKeyWins ==
    (fu.pc = "built" /\ BaseQuery # <<>>) =>
        /\ Len(ForwardQuery) >= Len(BaseQuery)
        /\ SubSeq(ForwardQuery, 1, Len(BaseQuery)) = BaseQuery
        /\ \A i \in DOMAIN AppendedPairs : AppendedPairs[i][1] \notin BaseKeys
        /\ IsSubsequence(InboundOnlyPairs, AppendedPairs)

\* C8: every key=value pair of the forward URI's query is a pair of the
\* base query or an inbound pair with its complete value; with a non-empty
\* base query and an absent or empty inbound query the forward URI's query
\* is exactly the base query.
C8_NoInventedOrTruncatedPairs ==
    fu.pc = "built" =>
        /\ \A i \in DOMAIN PairsOf(UrlQuery(fu.url)) :
               \/ \E j \in DOMAIN PairsOf(UrlQuery(target)) :
                      PairsOf(UrlQuery(target))[j] = PairsOf(UrlQuery(fu.url))[i]
               \/ \E j \in DOMAIN PairsOf(fu.query) :
                      PairsOf(fu.query)[j] = PairsOf(UrlQuery(fu.url))[i]
        /\ (BaseQuery # <<>> /\ (fu.query = None \/ fu.query = Some(<<>>))) =>
               ForwardQuery = BaseQuery

\* -------------------------------------------------------------------------
\* Claim C11: an x-forwarded-for value that is not text
\* -------------------------------------------------------------------------

\* the request the call was given carries an x-forwarded-for value that is
\* not text, and nothing else in it is unreadable
ForwardedForNotText(c) ==
    LET h   == calls[c].inbound.headers
        xff == HeaderGet(h, X_FORWARDED_FOR)
    IN  /\ xff # None
        /\ ~ToStrOk(xff[1])
        /\ \A i \in DOMAIN h : h[i][1] # X_FORWARDED_FOR => ToStrOk(h[i][2])

\* C11: a call given an x-forwarded-for value that is not valid text ends
\* with the ForwardHeaderError error value, mapped by the adapter to a 500
\* response, and its outbound request is never dispatched.
C11_ForwardHeaderError ==
    \A c \in CallIds :
        (calls[c].pc # "idle" /\ ForwardedForNotText(c) /\ UriParseOk(target)) =>
            /\ calls[c].pc = "delivered"
            /\ calls[c].result.kind = "ForwardHeaderError"
            /\ calls[c].outbound = NoOutbound

\* -------------------------------------------------------------------------
\* Claim C12: a response that is not 101
\* -------------------------------------------------------------------------

\* the call returned a backend response whose status is not 101
ReturnedPlain(c) ==
    /\ calls[c].pc = "delivered"
    /\ calls[c].backend.status # 0
    /\ calls[c].backend.status # SWITCHING_PROTOCOLS

\* C12: when the backend's status is not 101 the call returns a response
\* with the backend's status and body; every header left in it is the
\* backend's, value and order unchanged, every header lost is one the
\* sanitizer is to remove (a hop-by-hop name or a name the connection header
\* lists), and no header named in HopHeaderSet is left.
C12_PlainResponseRelayed ==
    \A c \in CallIds :
        ReturnedPlain(c) =>
            LET sent == calls[c].backend.headers
                got  == calls[c].response.headers
                conn == HeaderGet(sent, CONNECTION_HEADER)
                listed == IF conn # None /\ ToStrOk(conn[1]) THEN ListedTokens(conn[1])
                          ELSE {}
            IN  /\ calls[c].result.kind = "Ok"
                /\ calls[c].response.status = calls[c].backend.status
                /\ calls[c].response.body.either = "Left"
                /\ calls[c].response.body.text = calls[c].backend.body
                /\ got = SelectSeq(sent, LAMBDA e : e[1] \in HeaderNames(got))
                /\ \A name \in HeaderNames(sent) \ HeaderNames(got) :
                       name \in HopHeaderSet \/ \E t \in listed : EqHeaderName(t, name)
                /\ HeaderNames(got) \cap HopHeaderSet = {}

C12_Witness ==
    \E c \in CallIds :
        /\ ReturnedPlain(c)
        /\ HeaderNames(calls[c].backend.headers) \cap HopHeaderSet # {}
        /\ calls[c].response.headers = << <<XFoo, <<"1">> >> >>

\* -------------------------------------------------------------------------
\* Claim C13: the sanitizer applied twice
\* -------------------------------------------------------------------------

\* C13: for every header collection the sanitizer pass never fails, after
\* one pass no header named in HopHeaderSet is left, and a second pass
\* leaves the collection as the first pass left it.
C13_SanitizerIdempotent ==
    /\ ~san.panic
    /\ san.pc \in {"once", "twice"} => HeaderNames(san.headers) \cap HopHeaderSet = {}
    /\ san.pc = "twice" => san.headers = san.once

C13_Witness ==
    /\ san.pc = "twice"
    /\ Len(san.original) > Len(san.once)
    /\ san.once # <<>>
    /\ HasHeader(san.original, CONNECTION_HEADER)

\* -------------------------------------------------------------------------
\* Claim C14: dispatch completion before response delivery
\* -------------------------------------------------------------------------

\* the event is on the call's log
Logged(c, event) == \E i \in DOMAIN calls[c].log : calls[c].log[i] = event

\* on the call's log the first event comes before the second
LoggedBefore(c, first, second) ==
    \E i, j \in DOMAIN calls[c].log :
        i < j /\ calls[c].log[i] = first /\ calls[c].log[j] = second

C15_TunnelOnlyWhenRequested ==
    \A c \in CallIds :
        calls[c].tunnel # "none" => calls[c].request_upgrade_type # None

====
